---------------------------- MODULE Spec2Model ----------------------------
(***************************************************************************)
(* The demo driver of the MinIO / Parseable audit-logging repository, in   *)
(* its two implementations: demo-app.js (lang = "js") and                  *)
(* minio_generate_sample_data.go (lang = "go").  One run of runDemo is a   *)
(* linear sequence of storage calls; every call's outcome (success or      *)
(* failure) is an input chosen by the environment.                         *)
(***************************************************************************)
EXTENDS Integers, Sequences, FiniteSets, TLC

VARIABLES
    lang,         \* which driver runs: "js" or "go"
    pc,           \* position of runDemo
    bucketThere,  \* storage side: the bucket exists
    objects,      \* storage side: keys held by the bucket
    numFiles,     \* runDemo's numFiles (0 until drawn)
    files,        \* runDemo's files: the generated names, in generation order
    genSize,      \* the generation loop's `size`: what the latest
                  \* generateRandomFile returned (0 outside the loop)
    disk,         \* names of the regular files in uploadDir
    idx,          \* index of the running loop (files handled so far)
    events,       \* storage calls and delays issued so far, in order
    removed,      \* names the driver has unlinked from uploadDir
    log,          \* tags of the messages printed for swallowed failures
    exitCode,     \* process exit status (NoExit while running)
    exists,       \* createBucketIfNotExists' `exists` (FALSE until checked)
    listed,       \* length of listObjects' objectsList (NoList: none returned)
    waiting,      \* the driver is suspended on a storage call it has issued
    inflight,     \* storage calls issued and not yet ended
    spc,          \* position of setup.sh ("idle": not running)
    compose,      \* setup.sh: which docker compose command the host has
    counter,      \* setup.sh: `counter`
    polls,        \* setup.sh: failed polls of the wait loop being run
    ready,        \* setup.sh: the services whose health endpoint has answered
    streams,      \* setup.sh: the log streams created
    status        \* setup.sh: exit status (NoExit while running)

\* The state of setup.sh.
setupVars == <<spc, compose, counter, polls, ready, streams, status>>

\* The state of a driver (demo-app.js, minio_generate_sample_data.go).
driverVars == <<lang, pc, bucketThere, objects, numFiles, files, genSize, disk,
                idx, events, removed, log, exitCode, exists, listed, waiting,
                inflight>>

vars == <<lang, pc, bucketThere, objects, numFiles, files, genSize, disk, idx,
          events, removed, log, exitCode, exists, listed, waiting, inflight,
          setupVars>>

(***************************************************************************)
(* Bounds of the model and constants of the program.                       *)
(***************************************************************************)
\* Number of distinct file names the name generators can return in a run.
NumNames == 2

MinFiles == 1
MaxFiles == 5
MinSize == 1000
MaxSize == 50000
GoSizeSpan == 49000
DownloadLimit == 2
\* exitCode while the process is still running.
NoExit == 0 - 1
\* listed while no listing has returned.
NoList == 0 - 1

Langs == {"js", "go"}
Names == 1..NumNames
\* A key that a bucket found at start may hold from an earlier run, one
\* that no file of this run is named after.
LeftoverKey == NumNames + 1
\* Key of an event that names no generated file (bucket calls, listings, the
\* fixed key 'non-existent-file.txt' of the getObject probe).
NoKey == 0

Min(a, b) == IF a < b THEN a ELSE b

\* Names held by a sequence of names.
Range(s) == {s[k] : k \in 1..Len(s)}

\* The names the generator may return next.  Names are only ever compared for
\* equality, so a fresh name is always the least unused one.
NextNames(fs) == {m \in Names : m <= Cardinality(Range(fs)) + 1}

Event(op, key, ok) == [op |-> op, key |-> key, ok |-> ok]

\* process.exit(1) in runDemo's catch (js); log.Fatalf (go).
Abort ==
    /\ pc' = "exited"
    /\ exitCode' = 1

(***************************************************************************)
(* Calls to the storage endpoint.  A call is issued when control reaches   *)
(* it and is in flight until it ends; the driver, suspended on it (await   *)
(* in js, a blocking call in go), goes on when it has ended.               *)
(***************************************************************************)
\* A mutation of StatOk: the upload does not look at the local file first.
StatAlwaysOk(name) == TRUE

\* fs.statSync(filePath) / os.Stat(filePath) succeeds: the file is there.
StatOk(name) == name \in disk

\* A mutation of FilesToDownload: the first file only.
FilesToDownloadFirst == Min(1, Len(files))

\* files.slice(0, Math.min(2, files.length))  /  min(2, len(files))
FilesToDownload == Min(DownloadLimit, Len(files))

\* The positions of runDemo at which control stands before a storage call.
CallSites ==
    {"bucketExists", "makeBucket", "setPolicy", "upload", "list", "download",
     "getPolicy", "prefixList", "getMissing", "getLocation"}

\* Control is at a storage call that the code now issues: uploadFile issues
\* fPutObject only if the stat of the local file succeeded, the download
\* loop only while files are left to fetch.
AtCall ==
    /\ pc \in CallSites
    /\ pc = "upload" => (idx < Len(files) /\ StatOk(files[idx + 1]))
    /\ pc = "download" => idx < FilesToDownload

IssueCall ==
    /\ AtCall
    /\ ~waiting
    /\ waiting' = TRUE
    /\ inflight' = inflight + 1
    /\ UNCHANGED <<setupVars, exists, listed>>
    /\ UNCHANGED <<lang, pc, bucketThere, objects, numFiles, files, genSize,
                   disk, idx, events, removed, log, exitCode>>

\* The awaited call has ended (resolved or rejected; returned): the driver
\* resumes.
Settle ==
    /\ waiting
    /\ waiting' = FALSE
    /\ inflight' = inflight - 1

\* A mutation of StreamSettled: the promise resolves on the first 'data'
\* event, while the listing is still streaming.
StreamSettledOnData ==
    /\ waiting
    /\ waiting' = FALSE
    /\ inflight' = inflight

\* A listing has ended: js settles the promise on the stream's 'end' or
\* 'error'; go leaves the `for range` when the channel is closed, or returns
\* on the entry that carries the error, the last one sent.
StreamSettled == Settle

\* A step of the driver that issues no storage call.
NoCall ==
    /\ ~waiting
    /\ UNCHANGED <<waiting, inflight>>

(***************************************************************************)
(* createBucketIfNotExists                                                 *)
(***************************************************************************)
\* A mutation of SetupFailure: the error is logged and not passed on.
SetupFailureSwallowed ==
    /\ pc' = "numFiles"
    /\ exitCode' = exitCode

\* bucketExists or makeBucket failed: js rethrows from the function's catch
\* into runDemo's; go returns the error to runDemo, which calls log.Fatalf.
SetupFailure == Abort

\* A mutation of AfterExists: the bucket is created without regard to the
\* answer of the check.
AfterExistsAlwaysMakes(e) == "makeBucket"

\* if (!exists) makeBucket ... else "already exists"; then the policy.
AfterExists(e) == IF e THEN "setPolicy" ELSE "makeBucket"

BucketExists ==
    /\ pc = "bucketExists"
    /\ Settle
    /\ \E ok \in BOOLEAN :
        /\ events' = Append(events, Event("bucketExists", NoKey, ok))
        /\ IF ok
           THEN /\ exists' = bucketThere
                /\ pc' = AfterExists(bucketThere)
                /\ exitCode' = exitCode
           ELSE /\ exists' = exists
                /\ SetupFailure
    /\ UNCHANGED <<setupVars, listed>>
    /\ UNCHANGED <<lang, bucketThere, objects, numFiles, files, genSize, disk,
                   idx, removed, log>>

MakeBucket ==
    /\ pc = "makeBucket"
    /\ Settle
    /\ \E ok \in BOOLEAN :
        /\ events' = Append(events, Event("makeBucket", NoKey, ok))
        /\ IF ok
           THEN /\ bucketThere' = TRUE
                /\ pc' = "setPolicy"
                /\ exitCode' = exitCode
           ELSE /\ bucketThere' = bucketThere
                /\ SetupFailure
    /\ UNCHANGED <<setupVars, exists, listed>>
    /\ UNCHANGED <<lang, objects, numFiles, files, genSize, disk, idx,
                   removed, log>>

\* A mutation of PolicyOutcome: the policy call sits in the outer try only.
PolicyOutcomeThrows(ok) ==
    IF ok
    THEN /\ pc' = "numFiles"
         /\ exitCode' = exitCode
    ELSE Abort

\* What follows setBucketPolicy: its own try/catch (js) or if/else (go)
\* prints the outcome, and the function returns without an error.
PolicyOutcome(ok) ==
    /\ pc' = "numFiles"
    /\ exitCode' = exitCode

SetBucketPolicy ==
    /\ pc = "setPolicy"
    /\ Settle
    /\ \E ok \in BOOLEAN :
        /\ events' = Append(events, Event("setBucketPolicy", NoKey, ok))
        /\ log' = IF ok THEN log ELSE log \cup {"policy"}
        /\ PolicyOutcome(ok)
    /\ UNCHANGED <<setupVars, exists, listed>>
    /\ UNCHANGED <<lang, bucketThere, objects, numFiles, files, genSize, disk,
                   idx, removed>>

(***************************************************************************)
(* generateRandomFile                                                      *)
(***************************************************************************)
\* Values of the size draw the model enumerates: the least and the greatest.
\* js: faker.number.int({min: 1000, max: 50000}); go: rand.Int(49000) + 1000.
JsFileSizes == {MinSize, MaxSize}
GoFileSizes == {0 + MinSize, (GoSizeSpan - 1) + MinSize}

\* Length of the text one generator call returns, as enumerated by the model:
\* faker.lorem.paragraphs joins paragraphs of three sentences with "\n";
\* gofakeit.Paragraph(5, 10, 10, " ") returns five paragraphs of ten
\* sentences of ten words.  Any length above 100 gives the same verdicts.
JsParagraphLens == {101, 143}
GoParagraphLens == {1049, 3049}

\* Math.ceil(fileSize / 100)
JsParagraphs(fileSize) == (fileSize + 99) \div 100

\* fileSize / 100, at least 1
GoParagraphs(fileSize) ==
    IF fileSize \div 100 < 1 THEN 1 ELSE fileSize \div 100

\* content.length (js): the paragraphs and the "\n" between them.
JsContentLength(fileSize, plen) ==
    JsParagraphs(fileSize) * plen + (JsParagraphs(fileSize) - 1)

\* len(content) (go): each generator call is followed by "\n\n".
GoContentLength(fileSize, plen) == GoParagraphs(fileSize) * (plen + 2)

\* The sizes generateRandomFile can return.
GeneratedSizes ==
    IF lang = "js"
    THEN {JsContentLength(fs, pl) : fs \in JsFileSizes, pl \in JsParagraphLens}
    ELSE {GoContentLength(fs, pl) : fs \in GoFileSizes, pl \in GoParagraphLens}

\* const numFiles = faker.number.int({ min: 1, max: 5 })  /  rand.Int(5) + 1
ChooseNumFiles ==
    /\ pc = "numFiles"
    /\ NoCall
    /\ \E n \in MinFiles..MaxFiles : numFiles' = n
    /\ idx' = 0
    /\ pc' = "generate"
    /\ UNCHANGED <<setupVars, exists, listed>>
    /\ UNCHANGED <<lang, bucketThere, objects, files, genSize, disk, events,
                   removed, log, exitCode>>

\* One iteration of the generation loop.  The write either succeeds (the file
\* now exists under its name, replacing a file of the same name) or fails
\* (js: writeFileSync throws into runDemo's catch; go: log.Fatalf).
GenerateFile ==
    /\ pc = "generate"
    /\ NoCall
    /\ Len(files) < numFiles
    /\ \E name \in NextNames(files), size \in GeneratedSizes :
        \/ /\ disk' = disk \cup {name}
           /\ files' = Append(files, name)
           /\ genSize' = size
           /\ UNCHANGED <<pc, exitCode>>
        \/ /\ Abort
           /\ UNCHANGED <<disk, files, genSize>>
    /\ UNCHANGED <<setupVars, exists, listed>>
    /\ UNCHANGED <<lang, bucketThere, objects, numFiles, idx, events, removed,
                   log>>

\* The generation loop is over (i = numFiles): its variables go out of scope
\* and the upload loop starts at the first file.
EndGenerate ==
    /\ pc = "generate"
    /\ NoCall
    /\ Len(files) = numFiles
    /\ pc' = "upload"
    /\ idx' = 0
    /\ genSize' = 0
    /\ UNCHANGED <<setupVars, exists, listed>>
    /\ UNCHANGED <<lang, bucketThere, objects, numFiles, files, disk, events,
                   removed, log, exitCode>>

(***************************************************************************)
(* uploadFile and the upload loop of runDemo                               *)
(***************************************************************************)
\* What a failure inside uploadFile or downloadFile, or of listObjects, does
\* to the run: js rethrows into runDemo's catch (process.exit(1)); go logs the
\* returned error and goes on with `next`.
Failed(tag, next) ==
    IF lang = "js"
    THEN /\ Abort
         /\ log' = log \cup {tag}
    ELSE /\ pc' = next
         /\ exitCode' = exitCode
         /\ log' = log \cup {tag}

\* A mutation of DiskAfterUpload: the unlink is not guarded by the upload's
\* success.
DiskAfterUploadAlways(name, ok, unlinked) == disk \ {name}

\* The local files left once fPutObject has returned with `ok` and the unlink
\* that follows a success has returned with `unlinked`.
DiskAfterUpload(name, ok, unlinked) ==
    IF ok /\ unlinked THEN disk \ {name} ELSE disk

\* A mutation of PutObject: the call reports success and stores nothing.
PutObjectLost(objs, name) == objs

\* The bucket's keys once fPutObject of `name` has succeeded: a new key is
\* added, a key already there is overwritten.
PutObject(objs, name) == objs \cup {name}

\* One call of uploadFile for files[idx + 1].
UploadFile ==
    /\ pc = "upload"
    /\ idx < Len(files)
    /\ LET name == files[idx + 1] IN
        \/ \* statSync / os.Stat fails: the file is not there, no call is issued
           /\ ~StatOk(name)
           /\ NoCall
           /\ Failed("upload", "uploadDelay")
           /\ UNCHANGED <<events, objects, disk, removed>>
        \/ \* fPutObject fails
           /\ StatOk(name)
           /\ Settle
           /\ events' = Append(events, Event("fPutObject", name, FALSE))
           /\ Failed("upload", "uploadDelay")
           /\ disk' = DiskAfterUpload(name, FALSE, FALSE)
           /\ removed' = removed \cup (disk \ disk')
           /\ UNCHANGED objects
        \/ \* fPutObject succeeds and the local file is unlinked
           /\ StatOk(name)
           /\ Settle
           /\ events' = Append(events, Event("fPutObject", name, TRUE))
           /\ objects' = PutObject(objects, name)
           /\ disk' = DiskAfterUpload(name, TRUE, TRUE)
           /\ removed' = removed \cup (disk \ disk')
           /\ pc' = "uploadDelay"
           /\ UNCHANGED <<log, exitCode>>
        \/ \* fPutObject succeeds and the unlink fails: js throws from inside
           \* uploadFile's try, go prints a warning and returns success
           /\ StatOk(name)
           /\ Settle
           /\ events' = Append(events, Event("fPutObject", name, TRUE))
           /\ objects' = PutObject(objects, name)
           /\ disk' = DiskAfterUpload(name, TRUE, FALSE)
           /\ removed' = removed \cup (disk \ disk')
           /\ IF lang = "js"
              THEN Failed("unlink", "uploadDelay")
              ELSE /\ pc' = "uploadDelay"
                   /\ log' = log \cup {"unlink"}
                   /\ exitCode' = exitCode
    /\ UNCHANGED <<setupVars, exists, listed>>
    /\ UNCHANGED <<lang, bucketThere, numFiles, files, genSize, idx>>

\* A mutation of Pause: the loops go on without waiting.
NoPause(es) == es

\* await new Promise(resolve => setTimeout(resolve, 500))  /
\* time.Sleep(500 * time.Millisecond): the delay, in the order of the calls.
Pause(es) == Append(es, Event("sleep", NoKey, TRUE))

\* A mutation of MoreToUpload: the loop leaves out the last file.
MoreToUploadButLast == idx + 2 < Len(files)

\* for (const file of files): the iteration that ends was not the last.
MoreToUpload == idx + 1 < Len(files)

\* The 500 ms pause that ends an iteration of the upload loop.
UploadDelay ==
    /\ pc = "uploadDelay"
    /\ NoCall
    /\ events' = Pause(events)
    /\ idx' = idx + 1
    /\ pc' = IF MoreToUpload THEN "upload" ELSE "list"
    /\ UNCHANGED <<setupVars, exists, listed>>
    /\ UNCHANGED <<lang, bucketThere, objects, numFiles, files, genSize, disk,
                   removed, log, exitCode>>

(***************************************************************************)
(* listObjects                                                             *)
(***************************************************************************)
\* The recursive listing: the stream ends (every object was delivered) or
\* errors.
ListObjects ==
    /\ pc = "list"
    /\ StreamSettled
    /\ \/ /\ events' = Append(events, Event("listObjects", NoKey, TRUE))
          /\ listed' = Cardinality(objects)
          /\ pc' = "download"
          /\ UNCHANGED <<log, exitCode>>
       \/ /\ events' = Append(events, Event("listObjects", NoKey, FALSE))
          /\ listed' = listed
          /\ Failed("list", "download")
    /\ idx' = 0
    /\ UNCHANGED <<setupVars, exists>>
    /\ UNCHANGED <<lang, bucketThere, objects, numFiles, files, genSize, disk,
                   removed>>

(***************************************************************************)
(* downloadFile and the download loop of runDemo                           *)
(***************************************************************************)
\* The loop is over: runDemo goes on to performAdditionalOperations.
SkipDownloads ==
    /\ pc = "download"
    /\ NoCall
    /\ idx >= FilesToDownload
    /\ pc' = "getPolicy"
    /\ UNCHANGED <<setupVars, exists, listed>>
    /\ UNCHANGED <<lang, bucketThere, objects, numFiles, files, genSize, disk,
                   idx, events, removed, log, exitCode>>

\* One call of downloadFile for files[idx + 1]; it can succeed only if the
\* bucket holds the key.
DownloadFile ==
    /\ pc = "download"
    /\ Settle
    /\ idx < FilesToDownload
    /\ LET name == files[idx + 1] IN
        \/ /\ name \in objects
           /\ events' = Append(events, Event("fGetObject", name, TRUE))
           /\ pc' = "downloadDelay"
           /\ UNCHANGED <<log, exitCode>>
        \/ /\ events' = Append(events, Event("fGetObject", name, FALSE))
           /\ Failed("download", "downloadDelay")
    /\ UNCHANGED <<setupVars, exists, listed>>
    /\ UNCHANGED <<lang, bucketThere, objects, numFiles, files, genSize, disk,
                   idx, removed>>

DownloadDelay ==
    /\ pc = "downloadDelay"
    /\ NoCall
    /\ events' = Pause(events)
    /\ idx' = idx + 1
    /\ pc' = "download"
    /\ UNCHANGED <<setupVars, exists, listed>>
    /\ UNCHANGED <<lang, bucketThere, objects, numFiles, files, genSize, disk,
                   removed, log, exitCode>>

(***************************************************************************)
(* performAdditionalOperations                                             *)
(***************************************************************************)
\* performAdditionalOperations returns and runDemo with it: the closing
\* messages are printed and the process ends with status 0.
Complete ==
    /\ pc' = "exited"
    /\ exitCode' = 0

\* getBucketPolicy: a failure is reported ("No bucket policy found") and the
\* listing follows.
GetBucketPolicy ==
    /\ pc = "getPolicy"
    /\ Settle
    /\ \E ok \in BOOLEAN :
        /\ events' = Append(events, Event("getBucketPolicy", NoKey, ok))
        /\ log' = IF ok THEN log ELSE log \cup {"getPolicy"}
    /\ pc' = "prefixList"
    /\ UNCHANGED <<setupVars, exists, listed>>
    /\ UNCHANGED <<lang, bucketThere, objects, numFiles, files, genSize, disk,
                   idx, removed, exitCode>>

\* Where the driver goes when the prefix listing's stream errors: js rejects
\* the awaited promise into the function's outer catch, which ends
\* performAdditionalOperations; go's `for range objectsCh` does not look at
\* the error.
PrefixErrorEndsProbes == lang = "js"

\* listObjects(bucketName, 'sample', false)
PrefixList ==
    /\ pc = "prefixList"
    /\ StreamSettled
    /\ \/ /\ events' = Append(events, Event("listPrefix", NoKey, TRUE))
          /\ pc' = "getMissing"
          /\ log' = log
          /\ exitCode' = exitCode
       \/ /\ events' = Append(events, Event("listPrefix", NoKey, FALSE))
          /\ IF PrefixErrorEndsProbes
             THEN /\ Complete
                  /\ log' = log \cup {"additional"}
             ELSE /\ pc' = "getMissing"
                  /\ exitCode' = exitCode
                  /\ log' = log
    /\ UNCHANGED <<setupVars, exists, listed>>
    /\ UNCHANGED <<lang, bucketThere, objects, numFiles, files, genSize, disk,
                   idx, removed>>

\* A mutation of MissingOutcome: the request has no try/catch of its own and
\* its error is passed on to runDemo.
MissingOutcomeThrows(ok) ==
    IF ok
    THEN /\ pc' = "getLocation"
         /\ exitCode' = exitCode
    ELSE Abort

\* What follows the request for 'non-existent-file.txt': the error, if any, is
\* caught on the spot and the location probe follows.
MissingOutcome(ok) ==
    /\ pc' = "getLocation"
    /\ exitCode' = exitCode

\* getObject(bucketName, 'non-existent-file.txt')
GetMissing ==
    /\ pc = "getMissing"
    /\ Settle
    /\ \E ok \in BOOLEAN :
        /\ events' = Append(events, Event("getObject", NoKey, ok))
        /\ log' = IF ok THEN log ELSE log \cup {"notFound"}
        /\ MissingOutcome(ok)
    /\ UNCHANGED <<setupVars, exists, listed>>
    /\ UNCHANGED <<lang, bucketThere, objects, numFiles, files, genSize, disk,
                   idx, removed>>

\* getBucketLocation, the last probe: whatever its outcome, the function
\* returns.
GetBucketLocation ==
    /\ pc = "getLocation"
    /\ Settle
    /\ \E ok \in BOOLEAN :
        /\ events' = Append(events, Event("getBucketLocation", NoKey, ok))
        /\ log' = IF ok THEN log ELSE log \cup {"location"}
    /\ Complete
    /\ UNCHANGED <<setupVars, exists, listed>>
    /\ UNCHANGED <<lang, bucketThere, objects, numFiles, files, genSize, disk,
                   idx, removed>>

Init ==
    /\ lang \in Langs
    /\ pc = "bucketExists"
    /\ bucketThere \in BOOLEAN
    /\ objects \in IF bucketThere THEN {{}, {LeftoverKey}} ELSE {{}}
    /\ numFiles = 0
    /\ files = <<>>
    /\ genSize = 0
    /\ disk = {}
    /\ idx = 0
    /\ events = <<>>
    /\ removed = {}
    /\ log = {}
    /\ exitCode = NoExit
    /\ exists = FALSE
    /\ listed = NoList
    /\ waiting = FALSE
    /\ inflight = 0
    /\ spc = "idle"
    /\ compose = "none"
    /\ counter = 0
    /\ polls = 0
    /\ ready = {}
    /\ streams = {}
    /\ status = NoExit

Next ==
    \/ IssueCall
    \/ BucketExists
    \/ MakeBucket
    \/ SetBucketPolicy
    \/ ChooseNumFiles
    \/ GenerateFile
    \/ EndGenerate
    \/ UploadFile
    \/ UploadDelay
    \/ ListObjects
    \/ SkipDownloads
    \/ DownloadFile
    \/ DownloadDelay
    \/ GetBucketPolicy
    \/ PrefixList
    \/ GetMissing
    \/ GetBucketLocation

Spec == Init /\ [][Next]_vars

(***************************************************************************)
(* setup.sh                                                                *)
(***************************************************************************)
\* timeout=60
Timeout == 60

\* sleep 2; counter=$((counter + 2))
PollStep == 2

\* The script ends with `code`.
SetupExit(code) ==
    /\ spc' = "exited"
    /\ status' = code

\* if ! docker info
DockerInfo ==
    /\ spc = "dockerInfo"
    /\ \/ /\ spc' = "composeCheck"
          /\ status' = status
       \/ SetupExit(1)
    /\ UNCHANGED <<compose, counter, polls, ready, streams>>
    /\ UNCHANGED driverVars

\* if ! command -v docker-compose && ! docker compose version
ComposeCheck ==
    /\ spc = "composeCheck"
    /\ IF compose = "none"
       THEN SetupExit(1)
       ELSE /\ spc' = "composeUp"
            /\ status' = status
    /\ UNCHANGED <<compose, counter, polls, ready, streams>>
    /\ UNCHANGED driverVars

\* docker-compose up -d / docker compose up -d, then sleep 30; the script
\* does not look at the outcome.
ComposeUp ==
    /\ spc = "composeUp"
    /\ spc' = "composePs"
    /\ UNCHANGED <<compose, counter, polls, ready, streams, status>>
    /\ UNCHANGED driverVars

\* docker-compose ps / docker compose ps; timeout=60; counter=0
ComposePs ==
    /\ spc = "composePs"
    /\ spc' = "pollParseable"
    /\ counter' = 0
    /\ polls' = 0
    /\ UNCHANGED <<compose, ready, streams, status>>
    /\ UNCHANGED driverVars

\* A mutation of TimedOut: -gt for -ge.
TimedOutLate(c) == c > Timeout

\* [ $counter -ge $timeout ]
TimedOut(c) == c >= Timeout

\* One evaluation of the loop condition `! curl -s <health endpoint>` for
\* `service`: the endpoint answers and the script goes on at `next` (for
\* MinIO after counter=0), or it does not and the loop body is entered.
Poll(service, here, body, next) ==
    /\ spc = here
    /\ \/ /\ ready' = ready \cup {service}
          /\ spc' = next
          /\ counter' = 0
          /\ polls' = 0
       \/ /\ spc' = body
          /\ polls' = polls + 1
          /\ UNCHANGED <<ready, counter>>
    /\ UNCHANGED <<compose, streams, status>>
    /\ UNCHANGED driverVars

\* The loop body: sleep 2; counter=$((counter + 2)); exit 1 on timeout.
Backoff(body, poll) ==
    /\ spc = body
    /\ counter' = counter + PollStep
    /\ IF TimedOut(counter')
       THEN SetupExit(1)
       ELSE /\ spc' = poll
            /\ status' = status
    /\ UNCHANGED <<compose, polls, ready, streams>>
    /\ UNCHANGED driverVars

PollParseable == Poll("parseable", "pollParseable", "backoffParseable", "pollMinio")

BackoffParseable == Backoff("backoffParseable", "pollParseable")

PollMinio == Poll("minio", "pollMinio", "backoffMinio", "createAudit")

BackoffMinio == Backoff("backoffMinio", "pollMinio")

\* curl -X PUT .../logstream/<name>: the stream is created or the request
\* fails; the script goes on either way.
CreateStream(name, here, next) ==
    /\ spc = here
    /\ \/ streams' = streams \cup {name}
       \/ streams' = streams
    /\ spc' = next
    /\ UNCHANGED <<compose, counter, polls, ready, status>>
    /\ UNCHANGED driverVars

CreateAuditStream == CreateStream("minio_audit", "createAudit", "createLog")

CreateLogStream == CreateStream("minio_log", "createLog", "goMod")

\* if [ -f "go.mod" ]; then go mod tidy; the closing messages; the script
\* ends with the status of its last echo.
GoModTidy ==
    /\ spc = "goMod"
    /\ SetupExit(0)
    /\ UNCHANGED <<compose, counter, polls, ready, streams>>
    /\ UNCHANGED driverVars

\* The script is started; no driver runs.
SetupInit ==
    /\ spc = "dockerInfo"
    /\ compose \in {"none", "docker-compose", "plugin"}
    /\ counter = 0
    /\ polls = 0
    /\ ready = {}
    /\ streams = {}
    /\ status = NoExit
    /\ lang = "js"
    /\ pc = "bucketExists"
    /\ bucketThere = FALSE
    /\ objects = {}
    /\ numFiles = 0
    /\ files = <<>>
    /\ genSize = 0
    /\ disk = {}
    /\ idx = 0
    /\ events = <<>>
    /\ removed = {}
    /\ log = {}
    /\ exitCode = NoExit
    /\ exists = FALSE
    /\ listed = NoList
    /\ waiting = FALSE
    /\ inflight = 0

SetupNext ==
    \/ DockerInfo
    \/ ComposeCheck
    \/ ComposeUp
    \/ ComposePs
    \/ PollParseable
    \/ BackoffParseable
    \/ PollMinio
    \/ BackoffMinio
    \/ CreateAuditStream
    \/ CreateLogStream
    \/ GoModTidy

\* The shell runs the script's commands one after the other, and each
\* command it starts returns.
SetupSpec == SetupInit /\ [][SetupNext]_vars /\ WF_vars(SetupNext)
(***************************************************************************)
(* Vocabulary of the properties                                            *)
(***************************************************************************)
\* Positions of the events of kind `op`.
Calls(op) == {k \in 1..Len(events) : events[k].op = op}

FailedCalls(op) == {k \in Calls(op) : ~events[k].ok}

\* Some fPutObject call for `name` has returned success.
PutOk(name) ==
    \E k \in Calls("fPutObject") : events[k].key = name /\ events[k].ok

\* The bucket-existence check or the bucket creation has failed.
SetupFailed ==
    FailedCalls("bucketExists") \cup FailedCalls("makeBucket") # {}

\* The kinds of call issued after bucket setup.
LaterOps ==
    {"fPutObject", "listObjects", "fGetObject", "getBucketPolicy",
     "listPrefix", "getObject", "getBucketLocation"}

ProbeOps == {"getBucketPolicy", "listPrefix", "getObject", "getBucketLocation"}

\* The events of the kinds in `ops`, in the order issued.
Only(ops) == SelectSeq(events, LAMBDA e : e.op \in ops)

\* The kinds of the events of a sequence.
Kinds(es) == [k \in 1..Len(es) |-> es[k].op]

\* The keys of the events of a sequence.
Keys(es) == [k \in 1..Len(es) |-> es[k].key]

Exited == pc = "exited"

(***************************************************************************)
(* C1.  If the bucket-existence check or the bucket creation call fails,   *)
(* the driver exits with non-zero status and, in that run, no file is      *)
(* generated and no upload, list, download or probe call is ever issued.   *)
(***************************************************************************)
C1_SetupFailureIsFatal ==
    SetupFailed =>
        /\ Exited
        /\ exitCode # NoExit /\ exitCode # 0
        /\ numFiles = 0 /\ files = <<>> /\ disk = {}
        /\ Only(LaterOps) = <<>>

\* The bucket was absent and its creation failed.
C1_Witness ==
    /\ FailedCalls("makeBucket") # {}
    /\ Exited

(***************************************************************************)
(* C2.  The process exits with non-zero status if and only if the          *)
(* bucket-existence check or bucket creation fails; a failure of any later *)
(* step (an upload, the full listing, a download, a probe) still ends the  *)
(* run with exit status zero.                                              *)
(***************************************************************************)
C2_NonZeroExitIffSetupFailed ==
    Exited =>
        /\ exitCode # 0 <=> SetupFailed
        /\ (\E op \in LaterOps : FailedCalls(op) # {}) => exitCode = 0

\* Generation is over and no upload has started.
BeforeFirstUpload == pc = "upload" /\ idx = 0

\* The last iteration of the upload loop has returned from uploadFile.
AfterLastUpload ==
    \/ pc = "uploadDelay" /\ idx + 1 = Len(files)
    \/ pc \in {"list", "download", "downloadDelay", "getPolicy", "prefixList",
               "getMissing", "getLocation"}
    \/ Exited /\ Calls("listObjects") # {}

(***************************************************************************)
(* C3.  For every generated file count n in 1..5, in a run where bucket    *)
(* setup and every upload call succeed, exactly n local files exist in the *)
(* upload directory after generation and before the first upload, and zero *)
(* of them remain locally once the last upload has returned.               *)
(***************************************************************************)
C3_LocalFilesCreatedThenGone ==
    /\ BeforeFirstUpload => Cardinality(disk) = numFiles
    /\ (AfterLastUpload /\ FailedCalls("fPutObject") = {}) => disk = {}

(***************************************************************************)
(* C4.  In every reachable state, a generated local file has been deleted  *)
(* by the driver only if the upload (put object) call for that file has    *)
(* already returned success; a failed upload never removes the local copy. *)
(***************************************************************************)
C4_DeletedOnlyAfterUploadSuccess ==
    \A name \in Range(files) :
        (name \in removed \/ name \notin disk) => PutOk(name)

\* One file was uploaded and deleted, the upload of another failed and its
\* local copy is still there.
C4_Witness ==
    /\ removed # {}
    /\ \E k \in FailedCalls("fPutObject") :
          events[k].key \in disk /\ ~PutOk(events[k].key)

(***************************************************************************)
(* C5.  When n files were uploaded, the download step issues exactly       *)
(* min(2, n) download calls, and they target the first min(2, n) files in  *)
(* generation order.                                                       *)
(***************************************************************************)
\* The run is over, every file was uploaded and the download step was
\* entered (its first iteration always issues a call).
C5_DownloadsFirstTwo ==
    (Exited /\ Calls("fGetObject") # {}
        /\ \A k \in 1..Len(files) : PutOk(files[k])) =>
        Keys(Only({"fGetObject"})) = SubSeq(files, 1, Min(2, numFiles))

(***************************************************************************)
(* C6.  A failed (not-found) response to the deliberate request for the    *)
(* non-existent key 'non-existent-file.txt' never aborts the run: the      *)
(* driver goes on to the bucket-location probe and finishes with exit      *)
(* status zero.                                                            *)
(***************************************************************************)
C6_NotFoundProbeIsNotFatal ==
    \A k \in FailedCalls("getObject") :
        \/ pc = "getLocation" /\ exitCode = NoExit /\ k = Len(events)
        \/ /\ Exited /\ exitCode = 0
           /\ Len(events) = k + 1
           /\ events[k + 1].op = "getBucketLocation"

\* The request was answered not-found and the run has ended.
C6_Witness ==
    /\ FailedCalls("getObject") # {}
    /\ Exited

(***************************************************************************)
(* C7.  A failure to delete the local file after its upload succeeded is   *)
(* non-fatal: the driver logs a warning, continues with the next upload    *)
(* and the remaining steps, and does not exit non-zero because of it.      *)
(***************************************************************************)
\* The unlink that follows a successful upload has failed ("unlink" is logged
\* by that branch alone).  If nothing else has failed, the run is not over
\* before the probes are, and it ends with status 0.
C7_UnlinkFailureIsNotFatal ==
    ("unlink" \in log /\ \A op \in LaterOps : FailedCalls(op) = {}) =>
        /\ exitCode \in {NoExit, 0}
        /\ Exited => Calls("getBucketLocation") # {}

(***************************************************************************)
(* C8.  In the additional-probes step (get bucket policy, prefix-filtered  *)
(* listing, non-existent-key request, get bucket location), the failure of *)
(* any one probe is logged and ignored: every other probe of the step is   *)
(* still attempted, in order.                                              *)
(***************************************************************************)
C8_EveryProbeAttempted ==
    (Exited /\ Calls("getBucketPolicy") # {}) =>
        Kinds(Only(ProbeOps)) =
            <<"getBucketPolicy", "listPrefix", "getObject", "getBucketLocation">>

(***************************************************************************)
(* C9.  A failure of the set-bucket-policy call during bucket setup is     *)
(* non-fatal: whether the bucket was just created or already existed, the  *)
(* driver proceeds to file generation and upload exactly as if the policy  *)
(* call had succeeded.                                                     *)
(***************************************************************************)
\* The step taken at the policy call leads to the draw of the file count and
\* changes nothing but the record of the call, whatever the call returned.
C9_PolicyFailureIsNotFatal ==
    [][(pc = "setPolicy" /\ waiting) =>
        /\ pc' = "numFiles"
        /\ UNCHANGED <<lang, bucketThere, objects, numFiles, files, genSize,
                       disk, idx, removed, exitCode, exists, listed>>
        /\ Len(events') = Len(events) + 1]_vars

\* The bucket was created, the policy call failed and a file was uploaded.
C9_Witness ==
    /\ Calls("makeBucket") # {}
    /\ FailedCalls("setBucketPolicy") # {}
    /\ \E name \in Range(files) : PutOk(name)

(***************************************************************************)
(* C10.  Every generated file has a size of at least 1000 and at most      *)
(* 50000 bytes, for every file of every run.                               *)
(***************************************************************************)
C10_GeneratedSizeInRange ==
    genSize # 0 => (MinSize <= genSize /\ genSize <= MaxSize)

StepOfCall(op) ==
    CASE op \in {"bucketExists", "makeBucket", "setBucketPolicy"} -> 1
      [] op = "fPutObject" -> 3
      [] op = "listObjects" -> 4
      [] op = "fGetObject" -> 5
      [] OTHER -> 6

StepOfPc ==
    CASE pc \in {"bucketExists", "makeBucket", "setPolicy"} -> 1
      [] pc \in {"numFiles", "generate"} -> 2
      [] pc \in {"upload", "uploadDelay"} -> 3
      [] pc = "list" -> 4
      [] pc \in {"download", "downloadDelay"} -> 5
      [] OTHER -> 6

\* The storage calls that have returned, in order.
StorageCalls == SelectSeq(events, LAMBDA e : e.op # "sleep")

\* The iterations of the upload and download loops that have ended.
Pauses == Cardinality(Calls("sleep"))

(***************************************************************************)
(* C12.  Within one run the steps run strictly in the order EnsureBucket,  *)
(* GenerateFiles, UploadAll, ListObjects, DownloadSubset,                  *)
(* AdditionalProbes: the calls that have returned are ordered by step, a   *)
(* call in flight belongs to no earlier step than any returned call, and a *)
(* step is entered only when the step before it is over (all files         *)
(* generated, every upload iteration ended, the listing returned, every    *)
(* download iteration ended).                                              *)
(***************************************************************************)
C12_StepsInOrder ==
    /\ LET sc == StorageCalls
           here == StepOfPc
       IN  /\ \A k \in 1..(Len(sc) - 1) :
                 StepOfCall(sc[k].op) <= StepOfCall(sc[k + 1].op)
           /\ ~Exited => \A k \in 1..Len(sc) : StepOfCall(sc[k].op) <= here
    /\ (~Exited /\ StepOfPc >= 2) => Calls("setBucketPolicy") # {}
    /\ (~Exited /\ StepOfPc = 2) => Only(LaterOps) = <<>>
    /\ (~Exited /\ StepOfPc >= 3) => Len(files) = numFiles /\ numFiles >= MinFiles
    /\ (~Exited /\ StepOfPc = 3) => Pauses = idx
    /\ (~Exited /\ StepOfPc = 4) => Pauses = numFiles
    /\ (~Exited /\ StepOfPc >= 5) => Cardinality(Calls("listObjects")) = 1
    /\ (~Exited /\ StepOfPc = 5) => Pauses = numFiles + idx
    /\ (~Exited /\ StepOfPc = 6) =>
          Pauses = numFiles + Min(DownloadLimit, numFiles)

\* The last probe is in flight after two uploads, the listing and two
\* downloads.
C12_Witness ==
    /\ pc = "getLocation" /\ waiting
    /\ Cardinality(Calls("fPutObject")) = 2
    /\ Cardinality(Calls("fGetObject")) = 2

(***************************************************************************)
(* C13.  At most one storage call is in flight at any time, a streamed     *)
(* listing that has not ended or errored included: a call is issued only   *)
(* after the call before it has ended.                                     *)
(***************************************************************************)
C13_AtMostOneCallInFlight ==
    /\ inflight <= 1
    /\ inflight = IF waiting THEN 1 ELSE 0

\* The call issued after the recursive listing is in flight, alone.
C13_Witness ==
    /\ Calls("listObjects") # {}
    /\ waiting
    /\ inflight = 1

\* The existence check has returned an answer.
Checked == Len(events) >= 1 /\ events[1].op = "bucketExists" /\ events[1].ok

\* Control has left createBucketIfNotExists without a failure of the check
\* or of the creation.
SetupDone == ~SetupFailed /\ (Exited \/ StepOfPc >= 2)

(***************************************************************************)
(* C14.  makeBucket is issued only when the existence check returned       *)
(* 'absent', and then at most once; it is never issued when the check      *)
(* returned 'exists'.  The policy call is issued, once, in both cases.     *)
(***************************************************************************)
C14_MakeBucketOnlyIfAbsent ==
    /\ Cardinality(Calls("makeBucket")) <= 1
    /\ (Calls("makeBucket") # {} \/ pc = "makeBucket") => (Checked /\ ~exists)
    /\ exists => (Checked /\ bucketThere)
    /\ (SetupDone /\ ~exists) => Cardinality(Calls("makeBucket")) = 1
    /\ SetupDone => Cardinality(Calls("setBucketPolicy")) = 1

\* The check answered 'absent'; the bucket was created and the policy call
\* has returned.
C14_Witness ==
    /\ Checked /\ ~exists
    /\ Calls("makeBucket") # {}
    /\ Calls("setBucketPolicy") # {}

TransferOps == {"fPutObject", "fGetObject"}

(***************************************************************************)
(* C15.  A delay takes place after every upload call and after every       *)
(* download call before the next storage call is issued: no two uploads    *)
(* and no two downloads are issued back to back.                           *)
(***************************************************************************)
C15_DelayAfterEveryTransfer ==
    /\ \A k \in 1..(Len(events) - 1) :
          events[k].op \in TransferOps => events[k + 1].op = "sleep"
    /\ (Len(events) >= 1 /\ events[Len(events)].op \in TransferOps) =>
          /\ ~waiting
          /\ Exited \/ pc \in {"uploadDelay", "downloadDelay"}

\* Two uploads and two downloads have returned, and a later call is in
\* flight.
C15_Witness ==
    /\ Cardinality(Calls("fPutObject")) = 2
    /\ Cardinality(Calls("fGetObject")) = 2
    /\ Calls("getBucketPolicy") # {}
    /\ waiting

\* The fPutObject calls that have returned success.
PutsOk == {k \in Calls("fPutObject") : events[k].ok}

\* A call of uploadFile has failed (js: thrown; go: returned an error).
UploadFailed ==
    \/ "upload" \in log
    \/ lang = "js" /\ "unlink" \in log

\* Every generated file's call of uploadFile has succeeded.
AllUploaded ==
    /\ Len(files) = numFiles /\ numFiles >= MinFiles
    /\ Cardinality(PutsOk) = numFiles
    /\ ~UploadFailed

\* The files after the one whose upload made js leave the run.
Remaining == {files[j] : j \in (idx + 2)..Len(files)}

(***************************************************************************)
(* C16.  In the js driver a download call is issued only in runs where     *)
(* every generated file's upload call has succeeded: a single failed       *)
(* upload ends the run with exit status 1 before the listing and before    *)
(* any download, and leaves the remaining files un-uploaded on local disk. *)
(***************************************************************************)
C16_JsFailedUploadAborts ==
    lang = "js" =>
        /\ (Calls("fGetObject") # {} \/ (pc = "download" /\ waiting)) =>
              AllUploaded
        /\ UploadFailed =>
              /\ Exited /\ exitCode = 1
              /\ Calls("listObjects") = {} /\ Calls("fGetObject") = {}
              /\ \A name \in Remaining : name \in disk /\ name \notin objects

\* The generated names are pairwise distinct.
DistinctNames == Cardinality(Range(files)) = Len(files)

\* The upload loop is over or was left.
UploadsOver == Exited \/ StepOfPc >= 4

\* Some fPutObject of a name succeeded and a later fPutObject of the same
\* name was issued.
PutAgainAfterSuccess ==
    \E k \in PutsOk : \E l \in Calls("fPutObject") :
        k < l /\ events[l].key = events[k].key

(***************************************************************************)
(* C17 as stated.  When two generated files receive the same name, the     *)
(* first upload of that name deletes the single local copy and the second  *)
(* upload of that name fails; hence all n uploads succeed only if the      *)
(* generated names are pairwise distinct.                                  *)
(***************************************************************************)
C17_AllUploadedOnlyIfDistinct ==
    /\ ~PutAgainAfterSuccess
    /\ AllUploaded => DistinctNames

(***************************************************************************)
(* C17, amended.  Two files of the same name leave one local file after    *)
(* generation.  If the first upload of that name succeeds and its local    *)
(* copy is deleted, no second fPutObject of that name is issued: the       *)
(* second upload fails, which ends the js run with exit status 1 before    *)
(* the listing and is logged by the go run, which continues.  In js all n  *)
(* uploads succeed only if the names are pairwise distinct; in go also     *)
(* when every local delete after the upload of a repeated name failed.     *)
(***************************************************************************)
C17_SecondUploadFailsAfterDelete ==
    /\ BeforeFirstUpload => disk = Range(files)
    /\ "unlink" \notin log => ~PutAgainAfterSuccess
    /\ (AllUploaded /\ (lang = "js" \/ "unlink" \notin log)) => DistinctNames
    /\ (lang = "js" /\ ~DistinctNames /\ UploadsOver) =>
          /\ Exited /\ exitCode = 1
          /\ Calls("listObjects") = {}
    /\ (lang = "go" /\ ~DistinctNames /\ UploadsOver /\ "unlink" \notin log
          /\ FailedCalls("fPutObject") = {} /\ AfterLastUpload) =>
          /\ "upload" \in log
          /\ exitCode # 1

\* The go driver has gone on to the listing after the second upload of a
\* name failed: its first upload had succeeded and deleted the local file.
C17_Witness ==
    /\ lang = "go"
    /\ files = <<1, 1>>
    /\ Cardinality(PutsOk) = 1
    /\ log = {"upload"}
    /\ pc = "list"

\* n calls of one kind.
Times(op, n) == [k \in 1..n |-> op]

\* The kinds of storage call of a run of n files in which nothing fails,
\* given what the existence check answers: the same for both drivers.
ExpectedKinds(n, present) ==
    <<"bucketExists">>
    \o (IF present THEN <<>> ELSE <<"makeBucket">>)
    \o <<"setBucketPolicy">>
    \o Times("fPutObject", n)
    \o <<"listObjects">>
    \o Times("fGetObject", Min(2, n))
    \o <<"getBucketPolicy", "listPrefix", "getObject", "getBucketLocation">>

\* Nothing has failed (no local write, no call, no local delete) but, as it
\* must, the request for the key that does not exist.
NothingFailed ==
    /\ Exited => Len(files) = numFiles
    /\ log \subseteq {"notFound"}
    /\ \A k \in 1..Len(events) : events[k].ok \/ events[k].op = "getObject"

InParseableLoop == spc \in {"pollParseable", "backoffParseable"}

InMinioLoop == spc \in {"pollMinio", "backoffMinio"}

\* What holds of the wait loops in every state of setup.sh.
WaitLoopsBounded ==
    /\ polls <= 30
    /\ (InParseableLoop \/ InMinioLoop) =>
          counter = PollStep * (IF spc \in {"backoffParseable", "backoffMinio"}
                                THEN polls - 1 ELSE polls)
    /\ (spc = "exited" /\ polls > 0) => (polls = 30 /\ status = 1)
    /\ InMinioLoop => ready = {"parseable"}
    /\ streams # {} => ready = {"parseable", "minio"}
    /\ spc \in {"createAudit", "createLog", "goMod"} =>
          ready = {"parseable", "minio"}
    /\ status = 0 => ready = {"parseable", "minio"}

(***************************************************************************)
(* C19.  In setup.sh each readiness wait loop (first Parseable, then       *)
(* MinIO) terminates: either the health endpoint answers and the script    *)
(* continues, or after at most 30 failed polls (counter advancing by 2 up  *)
(* to the timeout of 60, reset to 0 before the MinIO loop) the script      *)
(* exits with status 1; the log streams are created only after both        *)
(* services have answered ready.                                           *)
(***************************************************************************)
C19_WaitLoopsTerminate ==
    /\ []WaitLoopsBounded
    /\ InParseableLoop ~> (spc = "pollMinio" \/ (spc = "exited" /\ status = 1))
    /\ InMinioLoop ~> (spc = "createAudit" \/ (spc = "exited" /\ status = 1))

\* Parseable answered after some failed polls, and the MinIO loop then gave
\* up at its thirtieth failed poll.
C19_Witness ==
    /\ spc = "exited" /\ status = 1
    /\ ready = {"parseable"}
    /\ polls = 30
    /\ counter = Timeout

====
